---- MODULE Spec2Model ----
(***************************************************************************)
(* Model of the n8n node YtubeTranscriptWlang                              *)
(* (src/nodes/YtubeTranscriptWlang/YtubeTranscriptWlang.node.ts).          *)
(*                                                                         *)
(* JavaScript strings are modelled as sequences of one-character strings,  *)
(* so that trim, includes, split, the tag-stripping regular expression,    *)
(* parseFloat and the unary + conversion are computed, not assumed.        *)
(* A JavaScript number of seconds is modelled as a record: nan, or an      *)
(* integer count v of units of 10^-4 s; toFixed(3) rounds it to whole      *)
(* milliseconds, which is the unit of the emitted start and duration.      *)
(***************************************************************************)
EXTENDS Integers, Sequences, FiniteSets, TLC

VARIABLES
  stage,      \* of a run of one pure function: "input", then "done"
  selIn,      \* arguments of findBestSubtitle
  selOut,     \* its result
  parseIn,    \* argument of parseTranscriptContent
  parseOut,   \* its result
  now,        \* Date.now(), shared by every execution of the process
  fs,         \* the temporary directory: path -> file
  ex          \* the executions of the node: execution -> its state

vars == << stage, selIn, selOut, parseIn, parseOut, now, fs, ex >>

(***************************************************************************)
(* String primitives                                                       *)
(***************************************************************************)

\* White space removed by String.prototype.trim (the part of it the inputs use).
WS == {" ", "\t", "\r", "\n"}

Digits == {"0", "1", "2", "3", "4", "5", "6", "7", "8", "9"}

DigitVal(c) ==
  CASE c = "0" -> 0 [] c = "1" -> 1 [] c = "2" -> 2 [] c = "3" -> 3 [] c = "4" -> 4
    [] c = "5" -> 5 [] c = "6" -> 6 [] c = "7" -> 7 [] c = "8" -> 8 [] c = "9" -> 9

\* s.startsWith(sub, i) with 1-based i
MatchesAt(s, sub, i) ==
  /\ i >= 1
  /\ i + Len(sub) - 1 <= Len(s)
  /\ \A k \in 1..Len(sub) : s[i + k - 1] = sub[k]

\* s.indexOf(sub), 1-based; 0 when sub does not occur
IndexOf(s, sub) ==
  LET hits == {i \in 1..(Len(s) + 1) : MatchesAt(s, sub, i)}
  IN IF hits = {} THEN 0 ELSE CHOOSE i \in hits : \A j \in hits : i <= j

\* s.includes(sub)
Includes(s, sub) == IndexOf(s, sub) # 0

\* s.trim()
Trim(s) ==
  LET keep == {i \in 1..Len(s) : s[i] \notin WS}
  IN IF keep = {} THEN << >>
     ELSE LET lo == CHOOSE i \in keep : \A j \in keep : i <= j
              hi == CHOOSE i \in keep : \A j \in keep : i >= j
          IN SubSeq(s, lo, hi)

\* s.split(sep) for a non-empty separator string
RECURSIVE Split(_, _)
Split(s, sep) ==
  LET i == IndexOf(s, sep)
  IN IF i = 0 THEN << s >>
     ELSE << SubSeq(s, 1, i - 1) >> \o Split(SubSeq(s, i + Len(sep), Len(s)), sep)

\* parts.join(sep)
RECURSIVE Join(_, _)
Join(parts, sep) ==
  IF parts = << >> THEN << >>
  ELSE IF Len(parts) = 1 THEN parts[1]
  ELSE parts[1] \o sep \o Join(Tail(parts), sep)

\* s.replace(/<[^>]*>/g, ''): every leftmost  <  up to the next  >  is deleted
RECURSIVE StripTags(_)
StripTags(s) ==
  LET i == IndexOf(s, << "<" >>)
  IN IF i = 0 THEN s
     ELSE LET rest == SubSeq(s, i + 1, Len(s))
              j == IndexOf(rest, << ">" >>)
          IN IF j = 0 THEN s
             ELSE SubSeq(s, 1, i - 1) \o StripTags(SubSeq(rest, j + 1, Len(rest)))

(***************************************************************************)
(* Numbers                                                                 *)
(***************************************************************************)

NaN == [nan |-> TRUE, v |-> 0]

Num(n) == [nan |-> FALSE, v |-> n]

IsNaN(x) == x.nan

Plus(a, b) == IF IsNaN(a) \/ IsNaN(b) THEN NaN ELSE Num(a.v + b.v)

Minus(a, b) == IF IsNaN(a) \/ IsNaN(b) THEN NaN ELSE Num(a.v - b.v)

Times(a, k) == IF IsNaN(a) THEN NaN ELSE Num(a.v * k)

\* length of the longest prefix of s made of digits
RECURSIVE DigitRun(_)
DigitRun(s) ==
  IF s = << >> \/ Head(s) \notin Digits THEN 0 ELSE 1 + DigitRun(Tail(s))

RECURSIVE DigitsValue(_)
DigitsValue(s) ==
  IF s = << >> THEN 0 ELSE DigitsValue(SubSeq(s, 1, Len(s) - 1)) * 10 + DigitVal(s[Len(s)])

\* Length of the StrDecimalLiteral prefix of s: digits [ . digits ]  or  . digits
\* (0 when s starts with none). Signs, exponents and Infinity do not occur in
\* the inputs of the model.
NumPrefixLen(s) ==
  LET n == DigitRun(s)
      afterInt == SubSeq(s, n + 1, Len(s))
      f == IF afterInt # << >> /\ Head(afterInt) = "." THEN DigitRun(Tail(afterInt)) ELSE 0
  IN IF n = 0 /\ f = 0 THEN 0
     ELSE IF afterInt # << >> /\ Head(afterInt) = "." THEN n + 1 + f
     ELSE n

\* Value, in units of 10^-4 s, of a string that is exactly a decimal literal
\* (fractions carry at most four digits in the inputs of the model).
LiteralValue(s) ==
  LET n == DigitRun(s)
      frac == IF n < Len(s) THEN SubSeq(s, n + 2, Len(s)) ELSE << >>
      f4 == SubSeq(frac \o << "0", "0", "0", "0" >>, 1, 4)
  IN DigitsValue(SubSeq(s, 1, n)) * 10000 + DigitsValue(f4)

\* Left-trim as parseFloat does before reading the number
RECURSIVE TrimStart(_)
TrimStart(s) == IF s # << >> /\ Head(s) \in WS THEN TrimStart(Tail(s)) ELSE s

\* parseFloat(s): the longest numeric prefix after leading white space, else NaN
ParseFloat(s) ==
  LET t == TrimStart(s)
      n == NumPrefixLen(t)
  IN IF n = 0 THEN NaN ELSE Num(LiteralValue(SubSeq(t, 1, n)))

\* +s (ToNumber): white space trimmed, "" is 0, a whole decimal literal is its
\* value, anything else NaN
ToNumber(s) ==
  LET t == Trim(s)
  IN IF t = << >> THEN Num(0)
     ELSE IF NumPrefixLen(t) = Len(t) THEN Num(LiteralValue(t))
     ELSE NaN

\* +x.toFixed(3): x rounded to the nearest millisecond (the result is in
\* milliseconds); NaN.toFixed(3) is "NaN" and + of it is NaN again
ToFixed3(x) ==
  IF IsNaN(x) THEN NaN
  ELSE IF x.v >= 0 THEN Num((x.v + 5) \div 10)
  ELSE Num(0 - ((5 - x.v) \div 10))

(***************************************************************************)
(* Time Parser and Cue Parser                                              *)
(***************************************************************************)

Sep == << " ", "-", "-", ">", " " >>

NL == << "\n" >>

Colon == << ":" >>

\* timeToSeconds(timeString)
timeToSeconds(timeString) ==
  LET parts == Split(timeString, Colon)
  IN IF Len(parts) = 3
       THEN Plus(Plus(Times(ToNumber(parts[1]), 3600), Times(ToNumber(parts[2]), 60)),
                 ParseFloat(parts[3]))
     ELSE IF Len(parts) = 2
       THEN Plus(Times(ToNumber(parts[1]), 60), ParseFloat(parts[2]))
     ELSE ParseFloat(timeString)

\* The inner while loop of parseTranscriptContent: from line j, the index of the
\* line at which accumulation stops
RECURSIVE AccumulateEnd(_, _)
AccumulateEnd(lines, j) ==
  IF j <= Len(lines) /\ Trim(lines[j]) # << >> /\ ~Includes(lines[j], Sep)
    THEN AccumulateEnd(lines, j + 1)
    ELSE j

\* The text built by the inner while loop over lines[from .. to - 1]
RECURSIVE AccumulateText(_, _, _)
AccumulateText(lines, from, to) ==
  IF from >= to THEN << >>
  ELSE LET clean == Trim(StripTags(lines[from]))
       IN (IF clean # << >> THEN clean \o << " " >> ELSE << >>)
            \o AccumulateText(lines, from + 1, to)

\* The for loop of parseTranscriptContent from index i, transcript so far acc
RECURSIVE ParseFrom(_, _, _)
ParseFrom(lines, i, acc) ==
  IF i > Len(lines) THEN acc
  ELSE LET line == Trim(lines[i])
       IN IF Includes(line, Sep)
            THEN LET ts == Split(line, Sep)
                     start == timeToSeconds(ts[1])
                     end == timeToSeconds(ts[2])
                     duration == Minus(end, start)
                     j == AccumulateEnd(lines, i + 1)
                     text == AccumulateText(lines, i + 1, j)
                     item == [text |-> Trim(text), start |-> ToFixed3(start),
                              duration |-> ToFixed3(duration)]
                 IN ParseFrom(lines, j, IF Trim(text) # << >> THEN Append(acc, item) ELSE acc)
            ELSE ParseFrom(lines, i + 1, acc)

\* parseTranscriptContent(content)
parseTranscriptContent(content) == ParseFrom(Split(content, NL), 1, << >>)

(***************************************************************************)
(* Language Matcher                                                        *)
(***************************************************************************)

\* langVariants of findBestSubtitle
langVariants(lang) ==
  << lang, lang \o << "_", "U", "S" >>, lang \o << "-", "U", "S" >>,
     lang \o << ".", "U", "S" >> >>

\* tracks[langVar]?.length is truthy
HasLength(tracks, langVar) == langVar \in DOMAIN tracks /\ Len(tracks[langVar]) > 0

\* tracks[langVar] is truthy (an array, even an empty one, is)
Truthy(tracks, langVar) == langVar \in DOMAIN tracks

NoSelection ==
  [found |-> FALSE, selectedSubtitle |-> << >>, isManualSubtitle |-> FALSE, langVar |-> << >>]

\* subtitles[langVar] || autoCaptions[langVar], !!subtitles[langVar]
\* (langVar is the loop variable at the return, kept to name the chosen variant)
EitherTrack(subtitles, autoCaptions, langVar) ==
  [found |-> TRUE,
   selectedSubtitle |-> IF Truthy(subtitles, langVar) THEN subtitles[langVar]
                        ELSE autoCaptions[langVar],
   isManualSubtitle |-> Truthy(subtitles, langVar),
   langVar |-> langVar]

\* first loop of findBestSubtitle from variant k
RECURSIVE FirstPass(_, _, _, _, _)
FirstPass(subtitles, autoCaptions, vs, preferManual, k) ==
  IF k > Len(vs) THEN NoSelection
  ELSE IF preferManual /\ HasLength(subtitles, vs[k])
    THEN [found |-> TRUE, selectedSubtitle |-> subtitles[vs[k]],
          isManualSubtitle |-> TRUE, langVar |-> vs[k]]
  ELSE IF ~preferManual /\ (HasLength(subtitles, vs[k]) \/ HasLength(autoCaptions, vs[k]))
    THEN EitherTrack(subtitles, autoCaptions, vs[k])
  ELSE FirstPass(subtitles, autoCaptions, vs, preferManual, k + 1)

\* second (fallback) loop of findBestSubtitle from variant k
RECURSIVE Fallback(_, _, _, _)
Fallback(subtitles, autoCaptions, vs, k) ==
  IF k > Len(vs) THEN NoSelection
  ELSE IF HasLength(subtitles, vs[k]) \/ HasLength(autoCaptions, vs[k])
    THEN EitherTrack(subtitles, autoCaptions, vs[k])
  ELSE Fallback(subtitles, autoCaptions, vs, k + 1)

\* findBestSubtitle(subtitles, autoCaptions, lang, preferManual)
findBestSubtitle(subtitles, autoCaptions, lang, preferManual) ==
  LET vs == langVariants(lang)
      first == FirstPass(subtitles, autoCaptions, vs, preferManual, 1)
  IN IF first.found THEN first ELSE Fallback(subtitles, autoCaptions, vs, 1)

(***************************************************************************)
(* Inputs of the pure functions                                            *)
(***************************************************************************)

MaxTracks == 1

MaxLines == 4

En == << "e", "n" >>

Vi == << "v", "i" >>

\* The language codes a track map of the model may have as keys
TrackKeys == {langVariants(En)[k] : k \in 1..4}

\* Track descriptors are opaque to the node; the model tags them with the map
\* they come from
TrackLists(kind) == UNION {[1..n -> {kind}] : n \in 0..MaxTracks}

TrackMaps(kind) == UNION {[ks -> TrackLists(kind)] : ks \in SUBSET TrackKeys}

T1 == << "0", ":", "0", "1" >>

T2 == << "0", ":", "0", ":", "0", "3", ".", "5" >>

T3 == << "7", ".", "2", "5", "0", "4" >>

Settings == << " ", "a", ":", "b" >>

LText == << "h", "i" >>

LTagged == << "<", "b", ">", "y", "o", "<", "/", "b", ">", " " >>

LMarkup == << "<", "c", ">" >>

\* VTT/SRT lines the parser is run on: blank lines, text, markup, timing lines
\* with and without cue settings, and a timing line whose end is missing
LineSet ==
  { << >>, << " " >>, LText, LTagged, LMarkup,
    T1 \o Sep \o T2,
    T2 \o Sep \o T3 \o Settings,
    T1 \o Sep \o T2 \o Settings,
    T1 \o Sep }

Contents == {Join(ls, NL) : ls \in UNION {[1..n -> LineSet] : n \in 0..MaxLines}}

NoExecution == << >>

PureIdle == /\ now = 0 /\ fs = << >> /\ ex = NoExecution

SelectInit ==
  /\ stage = "input"
  /\ selIn \in [subtitles : TrackMaps("manual"), autoCaptions : TrackMaps("auto"),
                lang : {En, Vi}, preferManual : BOOLEAN]
  /\ selOut = NoSelection
  /\ parseIn = << >> /\ parseOut = << >>
  /\ PureIdle

\* one call of findBestSubtitle
Select ==
  /\ stage = "input"
  /\ stage' = "done"
  /\ selOut' = findBestSubtitle(selIn.subtitles, selIn.autoCaptions, selIn.lang,
                                selIn.preferManual)
  /\ UNCHANGED << selIn, parseIn, parseOut, now, fs, ex >>

SpecSelect == SelectInit /\ [][Select]_vars

ParseInit ==
  /\ stage = "input"
  /\ parseIn \in Contents
  /\ parseOut = << >>
  /\ selIn = [subtitles |-> << >>, autoCaptions |-> << >>, lang |-> En, preferManual |-> TRUE]
  /\ selOut = NoSelection
  /\ PureIdle

\* one call of parseTranscriptContent
Parse ==
  /\ stage = "input"
  /\ stage' = "done"
  /\ parseOut' = parseTranscriptContent(parseIn)
  /\ UNCHANGED << selIn, selOut, parseIn, now, fs, ex >>

SpecParse == ParseInit /\ [][Parse]_vars

(***************************************************************************)
(* The node's execute(): items, collaborators and temporary files          *)
(***************************************************************************)

MaxItems == 1

MaxClock == 1

Letters ==
  {"a", "b", "c", "d", "e", "f", "g", "h", "i", "j", "k", "l", "m", "n", "o", "p", "q",
   "r", "s", "t", "u", "v", "w", "x", "y", "z", "A", "B", "C", "D", "E", "F", "G", "H",
   "I", "J", "K", "L", "M", "N", "O", "P", "Q", "R", "S", "T", "U", "V", "W", "X", "Y", "Z"}

\* [a-zA-Z0-9_-]
IdChars == Letters \cup Digits \cup {"_", "-"}

YoutubeCom == << "y", "o", "u", "t", "u", "b", "e", ".", "c", "o", "m" >>

YoutuBe == << "y", "o", "u", "t", "u", ".", "b", "e" >>

WatchPrefix ==
  << "h", "t", "t", "p", "s", ":", "/", "/", "w", "w", "w", "." >> \o YoutubeCom
    \o << "/", "w", "a", "t", "c", "h", "?", "v", "=" >>

\* normalizeVideoUrl(videoId)
normalizeVideoUrl(videoId) ==
  IF Includes(videoId, YoutubeCom) \/ Includes(videoId, YoutuBe) THEN videoId
  ELSE WatchPrefix \o videoId

RECURSIVE IdRun(_)
IdRun(s) == IF s # << >> /\ Head(s) \in IdChars THEN << Head(s) >> \o IdRun(Tail(s)) ELSE << >>

\* videoInput.match(/(?:youtube\.com\/watch\?v=|youtu\.be\/)([a-zA-Z0-9_-]+)/):
\* the capture of the leftmost match, << >> when there is none
MatchVideoId(videoInput) ==
  LET alts == { YoutubeCom \o << "/", "w", "a", "t", "c", "h", "?", "v", "=" >>,
                YoutuBe \o << "/" >> }
      after(i, a) == SubSeq(videoInput, i + Len(a), Len(videoInput))
      hits == {i \in 1..Len(videoInput) :
                 \E a \in alts : MatchesAt(videoInput, a, i) /\ IdRun(after(i, a)) # << >>}
  IN IF hits = {} THEN << >>
     ELSE LET i == CHOOSE h \in hits : \A j \in hits : h <= j
              a == CHOOSE b \in alts : MatchesAt(videoInput, b, i) /\ IdRun(after(i, b)) # << >>
          IN IdRun(after(i, a))

\* extractVideoId(videoInput)
extractVideoId(videoInput) ==
  IF Includes(videoInput, YoutubeCom) \/ Includes(videoInput, YoutuBe)
    THEN IF MatchVideoId(videoInput) # << >> THEN MatchVideoId(videoInput) ELSE videoInput
    ELSE videoInput

\* getAvailableLanguages: the keys of both maps, in the order of the variants
RECURSIVE KeysOf(_, _)
KeysOf(tracks, vs) ==
  IF vs = << >> THEN << >>
  ELSE (IF Head(vs) \in DOMAIN tracks THEN << Head(vs) >> ELSE << >>) \o KeysOf(tracks, Tail(vs))

getAvailableLanguages(subtitles, autoCaptions) ==
  LET allLangs == KeysOf(subtitles, langVariants(En)) \o KeysOf(autoCaptions, langVariants(En))
  IN IF Len(allLangs) > 0 THEN Join(allLangs, << ",", " " >>) ELSE << "n", "o", "n", "e" >>

\* extractMetadata(info)
extractMetadata(info) ==
  [title |-> info.title, duration |-> info.duration, uploader |-> info.uploader,
   uploadDate |-> info.upload_date, viewCount |-> info.view_count,
   description |-> info.description, thumbnail |-> info.thumbnail, tags |-> info.tags,
   categories |-> info.categories]

(***************************************************************************)
(* Error messages: a fixed text with the values interpolated into it       *)
(***************************************************************************)

ToolNeedle == << "y", "t", "-", "d", "l", "p" >>

ShellNeedle ==
  << "c", "o", "m", "m", "a", "n", "d", " ", "n", "o", "t", " ", "f", "o", "u", "n", "d" >>

EmptyVideoIdText == "The video ID/URL parameter is empty."

MetadataFailedText == "Failed to fetch video metadata: Command failed: "

NoTranscriptText == "No transcript found for this video with language; Available languages: "

DownloadFailedText == "Failed to download transcript: Command failed: "

CouldNotReadText == "Could not read transcript file for language "

ToolNotFoundText ==
  "yt-dlp binary not found or failed to run. Please check the binaryPath parameter."

Message(text, args) == [text |-> text, args |-> args]

\* error.message.includes(needle): the needle is in the fixed text (only
\* ToolNotFoundText has one) or in an interpolated value
MessageIncludes(msg, needle) ==
  \/ (msg.text = ToolNotFoundText /\ needle = ToolNeedle)
  \/ \E i \in 1..Len(msg.args) : Includes(msg.args[i], needle)

(***************************************************************************)
(* Temporary files                                                         *)
(***************************************************************************)

NoPath == [base |-> "", t |-> 0, idx |-> 0, sub |-> << >>, ext |-> ""]

\* join(tmpdir(), `yt-cookies-${Date.now()}-${itemIndex}.txt`)
CookiePath(t, idx) == [base |-> "yt-cookies", t |-> t, idx |-> idx, sub |-> << >>, ext |-> "txt"]

\* join(tmpdir(), `transcript-${Date.now()}-${itemIndex}`)
OutputPath(t, idx) == [base |-> "transcript", t |-> t, idx |-> idx, sub |-> << >>, ext |-> ""]

\* `${outputPath}.${sub}.${ext}`
SubtitleFile(outputPath, sub, ext) == [outputPath EXCEPT !.sub = sub, !.ext = ext]

\* possibleFiles of downloadAndParseTranscript
possibleFiles(outputPath, lang) ==
  << SubtitleFile(outputPath, lang, "vtt"), SubtitleFile(outputPath, lang, "srt"),
     SubtitleFile(outputPath, lang \o << "_", "U", "S" >>, "vtt"),
     SubtitleFile(outputPath, lang \o << "_", "U", "S" >>, "srt"),
     SubtitleFile(outputPath, lang \o << "-", "U", "S" >>, "vtt"),
     SubtitleFile(outputPath, lang \o << "-", "U", "S" >>, "srt") >>

\* writeFile / the downloader writing its output: the file is created or replaced
WriteFile(files, path, content, owner) ==
  [p \in DOMAIN files \cup {path} |->
     IF p = path THEN [content |-> content, owner |-> owner] ELSE files[p]]

\* unlink(path): the file is removed; a missing file is an ignored error
Unlink(files, path) == [p \in DOMAIN files \ {path} |-> files[p]]

(***************************************************************************)
(* Inputs of execute() and outcomes of its collaborators                   *)
(***************************************************************************)

BareId == << "a", "b" >>

ShortUrl == YoutuBe \o << "/", "a", "b", "?", "t" >>

OtherBinary == << "/", "b", "i", "n", "/", "y", "t", "d" >>

UserCookieFile == [base |-> "user-cookies", t |-> 0, idx |-> 0, sub |-> << >>, ext |-> "txt"]

\* authMethod with the cookieString / cookieFile parameter that goes with it
AuthChoices ==
  { [authMethod |-> "none", cookieString |-> << >>, cookieFile |-> NoPath],
    [authMethod |-> "cookieString", cookieString |-> << "c" >>, cookieFile |-> NoPath],
    [authMethod |-> "cookieString", cookieString |-> << " " >>, cookieFile |-> NoPath],
    [authMethod |-> "cookieFile", cookieString |-> << >>, cookieFile |-> UserCookieFile] }

\* The fields of the JSON the metadata provider prints besides the track maps
Info ==
  [title |-> "title", duration |-> 499, uploader |-> "uploader", upload_date |-> "20250622",
   view_count |-> 15000, description |-> "description", thumbnail |-> "thumbnail",
   tags |-> << "tag" >>, categories |-> << "category" >>]

\* The subtitle text the downloader may leave in a file: an empty file, text
\* without any cue, and two cues
NoCueContent == << "W", "E", "B", "V", "T", "T" >>

TwoCueContent ==
  Join(<< T1 \o Sep \o T2, LTagged, LText, << >>, T2 \o Sep \o T3, LText >>, NL)

\* What one run of the downloader leaves on disk: nothing, or one file named
\* after a language code, with its extension and content
DownloadOutputs ==
  { [sub |-> En, ext |-> "vtt", content |-> c] : c \in {<< >>, NoCueContent, TwoCueContent} }
    \cup { [sub |-> langVariants(En)[2], ext |-> "srt", content |-> TwoCueContent],
           [sub |-> langVariants(En)[3], ext |-> "vtt", content |-> TwoCueContent],
           [sub |-> langVariants(En)[4], ext |-> "vtt", content |-> TwoCueContent] }

\* The inputs and collaborator outcomes of a batch run. The temporary paths of
\* one execution differ by the item index whatever Date.now() returns, so the
\* clock readings of a batch run are not varied.
BatchInputs ==
  [ clockSteps |-> {0},
    videoIds |-> {<< >>, << " " >>, BareId, ShortUrl},
    langs |-> {<< >>, En},
    includeMetadata |-> BOOLEAN,
    auths |-> AuthChoices,
    preferManual |-> BOOLEAN,
    outputFormats |-> {"structured", "plainText", "both"},
    binaryPaths |-> {ToolNeedle, OtherBinary},
    stderrs |-> {<< "E", "R", "R" >>, ShellNeedle},
    subtitles |-> {<< >>, En :> << "manual" >>, langVariants(En)[2] :> << "manual" >>},
    autoCaptions |-> {<< >>, En :> << "auto" >>, langVariants(En)[4] :> << "auto" >>},
    downloads |-> DownloadOutputs ]

\* The same, narrowed for two executions that run side by side
ParallelInputs ==
  [ clockSteps |-> {0, 1},
    videoIds |-> {BareId},
    langs |-> {En},
    includeMetadata |-> {FALSE},
    auths |-> {a \in AuthChoices : a.cookieString = << "c" >>},
    preferManual |-> {TRUE},
    outputFormats |-> {"structured"},
    binaryPaths |-> {OtherBinary},
    stderrs |-> {<< "E", "R", "R" >>},
    subtitles |-> {En :> << "manual" >>},
    autoCaptions |-> {<< >>},
    downloads |-> {d \in DownloadOutputs : d.sub = En /\ d.content # NoCueContent} ]

(***************************************************************************)
(* State of one execution                                                  *)
(***************************************************************************)

\* The locals of one loop iteration before the item's parameters are read
ItemLocals ==
  [videoId |-> << >>, lang |-> << >>, includeMetadata |-> FALSE, authMethod |-> "none",
   cookieString |-> << >>, cookieFilePath |-> NoPath, videoUrl |-> << >>, parsedInfo |-> << >>,
   isManualSubtitle |-> FALSE, langVar |-> << >>, outputPath |-> NoPath, k |-> 0,
   transcriptContent |-> << >>, usedFile |-> NoPath, formattedTranscript |-> << >>,
   after |-> "next",
   \* history of the item, kept for the statements about it: the collaborator
   \* calls made, the file the downloader left, the outputFormat that was read,
   \* whether a file written by another execution was read or unlinked, how
   \* each collaborator call ended, and what each selection found
   calls |-> << >>, fetched |-> << >>, outputFormat |-> "", foreign |-> FALSE,
   outcomes |-> << >>, selections |-> << >>]

\* The item that was processed last: its index, whether it failed, its locals
NoItem == [idx |-> 0 - 1, failed |-> FALSE, it |-> ItemLocals]

\* An execution at the top of its loop: continueOnFail() and the number of
\* input items are fixed for the execution
NewExecution(continueOnFail, nItems) ==
  [continueOnFail |-> continueOnFail, nItems |-> nItems, itemIndex |-> 0, pc |-> "begin",
   returnData |-> << >>, thrown |-> << >>, last |-> NoItem, it |-> ItemLocals]

\* The executions the process may run side by side
Executions == {1, 2}

\* The loop moves on after an item: itemIndex++ and the loop test
NextItem(x) ==
  [x EXCEPT !.itemIndex = @ + 1,
            !.pc = IF x.itemIndex + 1 < x.nItems THEN "begin" ELSE "returned",
            !.last = [idx |-> x.itemIndex, failed |-> x.it.after # "next", it |-> x.it],
            !.it = ItemLocals]

\* What follows the finally block: the next iteration, or the error leaves
\* execute()
Complete(x) ==
  IF x.it.after = "throw"
    THEN [x EXCEPT !.pc = "thrown",
                   !.last = [idx |-> x.itemIndex, failed |-> TRUE, it |-> x.it]]
    ELSE NextItem(x)

\* The finally block up to its await: the cookie file is unlinked only when the
\* item wrote one
Finally(x) ==
  IF x.it.cookieFilePath # NoPath /\ x.it.authMethod = "cookieString"
    THEN [x EXCEPT !.pc = "finally"]
    ELSE Complete(x)

\* The catch block for an error with message msg, followed by the finally block
Catch(x, msg) ==
  IF MessageIncludes(msg, ToolNeedle) \/ MessageIncludes(msg, ShellNeedle)
    THEN Finally([x EXCEPT !.thrown = << Message(ToolNotFoundText, << >>) >>,
                           !.it.after = "throw"])
  ELSE IF x.continueOnFail
    THEN Finally([x EXCEPT !.returnData = Append(@, [json |-> [error |-> msg, videoId |-> x.it.videoId],
                                                    pairedItem |-> x.itemIndex]),
                           !.it.after = "continue"])
  ELSE Finally([x EXCEPT !.thrown = << msg >>, !.it.after = "throw"])

\* The values interpolated into the command line of a collaborator call, which
\* the message of a failed exec repeats: the binary and the URL
CommandArgs(x, binaryPath) ==
  << binaryPath, x.it.videoUrl >>

\* parsedInfo is never read as truthy
HasInfoNever(parsedInfo) == FALSE

\* parsedInfo is truthy (parsedInfo || ..., includeMetadata && parsedInfo)
HasInfo(parsedInfo) == parsedInfo # << >>

\* The first call of getVideoMetadata an item makes: the one of line 218 when
\* metadata is requested, otherwise the one of line 222
FirstMetadataCall(includeMetadata) == IF includeMetadata THEN "metadata" ELSE "subtitleInfo"

\* `--sub-lang ${lang}`: the language the download command asks for
SubLang(it) == it.lang

\* the result object with transcriptText left out of the format "both"
BuildResultPlainOnly(x, outputFormat) ==
  LET t == x.it.formattedTranscript
  IN [youtubeId |-> extractVideoId(x.it.videoId), videoUrl |-> x.it.videoUrl,
      language |-> x.it.lang,
      subtitleType |-> IF x.it.isManualSubtitle THEN "manual" ELSE "auto-generated",
      transcriptLength |-> Len(t)]
       @@ (IF outputFormat \in {"structured", "both"} THEN "transcript" :> t ELSE << >>)
       @@ (IF outputFormat = "plainText"
             THEN "transcriptText" :> Join([n \in 1..Len(t) |-> t[n].text], << " " >>)
             ELSE << >>)
       @@ (IF x.it.includeMetadata /\ HasInfo(x.it.parsedInfo)
             THEN "metadata" :> extractMetadata(x.it.parsedInfo[1]) ELSE << >>)

\* The result object of a successful item
BuildResult(x, outputFormat) ==
  LET t == x.it.formattedTranscript
      base == [youtubeId |-> extractVideoId(x.it.videoId), videoUrl |-> x.it.videoUrl,
               language |-> x.it.lang,
               subtitleType |-> IF x.it.isManualSubtitle THEN "manual" ELSE "auto-generated",
               transcriptLength |-> Len(t)]
      structured == IF outputFormat \in {"structured", "both"}
                      THEN "transcript" :> t ELSE << >>
      plain == IF outputFormat \in {"plainText", "both"}
                 THEN "transcriptText" :> Join([n \in 1..Len(t) |-> t[n].text], << " " >>)
                 ELSE << >>
      meta == IF x.it.includeMetadata /\ HasInfo(x.it.parsedInfo)
                THEN "metadata" :> extractMetadata(x.it.parsedInfo[1]) ELSE << >>
  IN base @@ structured @@ plain @@ meta

(***************************************************************************)
(* The steps of execute(): one action per stretch of code between awaits   *)
(***************************************************************************)

\* the validation without the trim
IsBlankUntrimmed(videoId) == videoId = << >>

\* !videoId?.trim()
IsBlank(videoId) == Trim(videoId) = << >>

\* What a call of Date.now() may return: the last reading plus the
\* milliseconds that have passed since
ClockReadings(in) == {t \in {now + d : d \in in.clockSteps} : t <= MaxClock}

\* Lines 176-213: the parameters are read and validated, the cookie file path
\* is chosen; up to the first await (writeFile, or the metadata command).
\* preferManual, outputFormat and binaryPath are fixed inputs that no step
\* changes: the model draws each where the code first uses it.
Begin(e, in) ==
  LET x == ex[e] IN
  /\ e \in DOMAIN ex
  /\ x.pc = "begin"
  /\ \E videoId \in in.videoIds, langParam \in in.langs,
        includeMetadata \in in.includeMetadata, auth \in in.auths, t \in ClockReadings(in) :
       LET writesCookie == /\ ~IsBlank(videoId)
                           /\ auth.authMethod = "cookieString"
                           /\ Trim(auth.cookieString) # << >>
           read == [x EXCEPT !.it = [ItemLocals EXCEPT
                      !.videoId = videoId,
                      !.lang = IF langParam = << >> THEN En ELSE langParam,
                      !.includeMetadata = includeMetadata,
                      !.authMethod = auth.authMethod,
                      !.cookieString = auth.cookieString]]
       IN /\ now' = IF writesCookie THEN t ELSE now
          /\ ex' = [ex EXCEPT ![e] =
            IF IsBlank(videoId)
              THEN Catch(read, Message(EmptyVideoIdText, << >>))
            ELSE IF writesCookie
              THEN [read EXCEPT !.pc = "writeCookie",
                                !.it.cookieFilePath = CookiePath(t, x.itemIndex)]
            ELSE [read EXCEPT !.pc = FirstMetadataCall(includeMetadata),
                              !.it.cookieFilePath = IF auth.authMethod = "cookieFile"
                                                      THEN auth.cookieFile ELSE NoPath,
                              !.it.videoUrl = normalizeVideoUrl(videoId)]]
  /\ UNCHANGED << stage, selIn, selOut, parseIn, parseOut, fs >>

\* Lines 201-213: writeFile of the cookie file (an error is ignored), then the
\* URL is normalized
WriteCookie(e) ==
  LET x == ex[e] IN
  /\ e \in DOMAIN ex
  /\ x.pc = "writeCookie"
  /\ \/ fs' = WriteFile(fs, x.it.cookieFilePath, << "#" >> \o x.it.cookieString, e)
     \/ UNCHANGED fs
  /\ ex' = [ex EXCEPT ![e] = [x EXCEPT !.pc = FirstMetadataCall(x.it.includeMetadata),
                                       !.it.calls = Append(@, "writeCookie"),
                                       !.it.videoUrl = normalizeVideoUrl(x.it.videoId)]]
  /\ UNCHANGED << stage, selIn, selOut, parseIn, parseOut, now >>

\* Lines 216-251 and 338-354, 397-403: a call of getVideoMetadata returns or
\* throws, at line 218 (pc "metadata") or at line 222 (pc "subtitleInfo"). A
\* result of line 218 that is truthy is used for the selection, otherwise the
\* call of line 222 follows; after the selection the download command is
\* started
Metadata(e, in) ==
  LET x == [ex[e] EXCEPT !.it.calls = Append(@, "metadata")] IN
  /\ e \in DOMAIN ex
  /\ ex[e].pc \in {"metadata", "subtitleInfo"}
  /\ \/ /\ \E binaryPath \in in.binaryPaths, stderr \in in.stderrs :
            ex' = [ex EXCEPT ![e] =
              Catch([x EXCEPT !.it.outcomes = Append(@, "failed")],
                    Message(MetadataFailedText, CommandArgs(x, binaryPath) \o << stderr >>))]
        /\ UNCHANGED now
     \/ \E subtitles \in in.subtitles, autoCaptions \in in.autoCaptions,
           preferManual \in in.preferManual, t \in ClockReadings(in) :
          LET sel == findBestSubtitle(subtitles, autoCaptions, x.it.lang, preferManual)
              ok == [x EXCEPT !.it.outcomes = Append(@, "ok")]
              again == x.pc = "metadata" /\ ~HasInfo(<< Info >>)
              got == [ok EXCEPT !.it.parsedInfo = IF x.pc = "metadata" THEN << Info >> ELSE @,
                                !.it.selections = Append(@, sel.found)]
          IN /\ now' = IF sel.found /\ ~again THEN t ELSE now
             /\ ex' = [ex EXCEPT ![e] =
               IF again
                 THEN [ok EXCEPT !.pc = "subtitleInfo", !.it.parsedInfo = << Info >>]
               ELSE IF ~sel.found
                 THEN Catch(got, Message(NoTranscriptText,
                        << x.it.lang, getAvailableLanguages(subtitles, autoCaptions) >>))
                 ELSE [got EXCEPT !.pc = "download",
                                  !.it.isManualSubtitle = sel.isManualSubtitle,
                                  !.it.langVar = sel.langVar,
                                  !.it.outputPath = OutputPath(t, x.itemIndex)]]
  /\ UNCHANGED << stage, selIn, selOut, parseIn, parseOut, fs >>

\* Lines 405-421: the download command ends; it fails, or it has left at most
\* one subtitle file next to outputPath
Download(e, in) ==
  LET x == [ex[e] EXCEPT !.it.calls = Append(@, "download")] IN
  /\ e \in DOMAIN ex
  /\ ex[e].pc = "download"
  /\ \/ /\ \E binaryPath \in in.binaryPaths, stderr \in in.stderrs :
            ex' = [ex EXCEPT ![e] =
              Catch([x EXCEPT !.it.outcomes = Append(@, "failed")],
                    Message(DownloadFailedText, CommandArgs(x, binaryPath) \o << stderr >>))]
        /\ UNCHANGED fs
     \/ /\ ex' = [ex EXCEPT ![e] = [x EXCEPT !.pc = "read", !.it.k = 1,
                                               !.it.outcomes = Append(@, "ok")]]
        /\ UNCHANGED fs
     \/ \E out \in in.downloads :
          /\ ex' = [ex EXCEPT ![e] = [x EXCEPT !.pc = "read", !.it.k = 1,
                                               !.it.outcomes = Append(@, "ok"),
                                               !.it.fetched = << out >>]]
          /\ fs' = WriteFile(fs, SubtitleFile(x.it.outputPath, out.sub, out.ext),
                             out.content, e)
  /\ UNCHANGED << stage, selIn, selOut, parseIn, parseOut, now >>

\* Lines 433-448: after the read loop; empty content is an error, otherwise the
\* content is parsed and the file that was read is unlinked
AfterRead(x) ==
  IF x.it.transcriptContent = << >>
    THEN Catch(x, Message(CouldNotReadText, << x.it.lang >>))
  ELSE LET parsed == [x EXCEPT !.it.formattedTranscript =
                                  parseTranscriptContent(x.it.transcriptContent)]
       IN IF x.it.usedFile # NoPath THEN [parsed EXCEPT !.pc = "unlinkSubtitle"]
          ELSE [parsed EXCEPT !.pc = "result"]

\* Lines 423-431: one readFile of the read loop, on possibleFiles[k]
ReadFile(e) ==
  LET x == ex[e]
      file == possibleFiles(x.it.outputPath, x.it.lang)[x.it.k]
  IN
  /\ e \in DOMAIN ex
  /\ x.pc = "read"
  /\ ex' = [ex EXCEPT ![e] =
       IF file \in DOMAIN fs
         THEN AfterRead([x EXCEPT !.it.transcriptContent = fs[file].content,
                                  !.it.usedFile = file,
                                  !.it.foreign = @ \/ fs[file].owner # e])
       ELSE IF x.it.k < Len(possibleFiles(x.it.outputPath, x.it.lang))
         THEN [x EXCEPT !.it.k = @ + 1]
       ELSE AfterRead(x)]
  /\ UNCHANGED << stage, selIn, selOut, parseIn, parseOut, now, fs >>

\* Lines 253-279 and 303-312: the result object is built and pushed; the
\* finally block follows
PushResult(x, outputFormat) ==
  Finally([x EXCEPT !.returnData = Append(@, [json |-> BuildResult(x, outputFormat),
                                                pairedItem |-> x.itemIndex]),
                    !.it.after = "next", !.it.outputFormat = outputFormat])

\* Lines 442-450, then 253-279: unlink of the subtitle file that was read (an
\* error is ignored), the transcript is returned and the result is pushed
UnlinkSubtitle(e, in) ==
  LET x == ex[e] IN
  /\ e \in DOMAIN ex
  /\ x.pc = "unlinkSubtitle"
  /\ fs' = Unlink(fs, x.it.usedFile)
  /\ \E outputFormat \in in.outputFormats :
       ex' = [ex EXCEPT ![e] =
         PushResult([x EXCEPT !.it.foreign =
                       @ \/ (x.it.usedFile \in DOMAIN fs /\ fs[x.it.usedFile].owner # e)],
                    outputFormat)]
  /\ UNCHANGED << stage, selIn, selOut, parseIn, parseOut, now >>

\* Lines 303-312: unlink of the cookie file in the finally block (an error is
\* ignored), then the loop goes on or the error leaves execute()
FinallyUnlink(e) ==
  LET x == ex[e] IN
  /\ e \in DOMAIN ex
  /\ x.pc = "finally"
  /\ fs' = Unlink(fs, x.it.cookieFilePath)
  /\ ex' = [ex EXCEPT ![e] =
       Complete([x EXCEPT !.it.foreign =
                   @ \/ (x.it.cookieFilePath \in DOMAIN fs
                           /\ fs[x.it.cookieFilePath].owner # e)])]
  /\ UNCHANGED << stage, selIn, selOut, parseIn, parseOut, now >>

PureUnused ==
  /\ stage = "run"
  /\ selIn = [subtitles |-> << >>, autoCaptions |-> << >>, lang |-> En, preferManual |-> TRUE]
  /\ selOut = NoSelection
  /\ parseIn = << >> /\ parseOut = << >>

\* One execution of the node over a batch of 1..MaxItems items
Init ==
  /\ PureUnused
  /\ now = 0
  /\ fs = << >>
  /\ \E continueOnFail \in BOOLEAN, nItems \in 1..MaxItems :
       ex = [e \in {1} |-> NewExecution(continueOnFail, nItems)]

Next ==
  \/ \E e \in Executions : Begin(e, BatchInputs)
  \/ \E e \in Executions : WriteCookie(e)
  \/ \E e \in Executions : Metadata(e, BatchInputs)
  \/ \E e \in Executions : Download(e, BatchInputs)
  \/ \E e \in Executions : ReadFile(e)
  \/ \E e \in Executions : UnlinkSubtitle(e, BatchInputs)
  \/ \E e \in Executions : FinallyUnlink(e)

Spec == Init /\ [][Next]_vars

\* Two executions of the node in the same process and temporary directory,
\* one item each
InitParallel ==
  /\ PureUnused
  /\ now = 0
  /\ fs = << >>
  /\ ex = [e \in {1, 2} |-> NewExecution(TRUE, 1)]

NextParallel ==
  \/ \E e \in Executions : Begin(e, ParallelInputs)
  \/ \E e \in Executions : WriteCookie(e)
  \/ \E e \in Executions : Metadata(e, ParallelInputs)
  \/ \E e \in Executions : Download(e, ParallelInputs)
  \/ \E e \in Executions : ReadFile(e)
  \/ \E e \in Executions : UnlinkSubtitle(e, ParallelInputs)
  \/ \E e \in Executions : FinallyUnlink(e)

SpecParallel == InitParallel /\ [][NextParallel]_vars

(***************************************************************************)
(* Claims about the Language Matcher (checked under SpecSelect)            *)
(***************************************************************************)

\* positions of the variants of the requested language that have a non-empty
\* entry in a map
NonEmptyIn(tracks) ==
  {k \in 1..4 : HasLength(tracks, langVariants(selIn.lang)[k])}

Lowest(S) == CHOOSE k \in S : \A j \in S : k <= j

\* C2: with preferManual = true the result is the first variant with a
\* non-empty manual entry, flagged manual, if there is one; otherwise the first
\* variant with a non-empty entry in either map, returned as an automatic
\* track; and it is null exactly when no variant has a non-empty entry.
C2_PreferManualSelection ==
  (stage = "done" /\ selIn.preferManual) =>
    LET vs == langVariants(selIn.lang)
        man == NonEmptyIn(selIn.subtitles)
        any == man \cup NonEmptyIn(selIn.autoCaptions)
    IN IF man # {}
         THEN /\ selOut.found
              /\ selOut.langVar = vs[Lowest(man)]
              /\ selOut.isManualSubtitle
              /\ selOut.selectedSubtitle = selIn.subtitles[vs[Lowest(man)]]
       ELSE IF any # {}
         THEN /\ selOut.found
              /\ selOut.langVar = vs[Lowest(any)]
              /\ ~selOut.isManualSubtitle
              /\ selOut.selectedSubtitle = selIn.autoCaptions[vs[Lowest(any)]]
       ELSE ~selOut.found

\* C3: for either preference, a non-null result is flagged manual exactly when
\* manualTracks has a non-empty entry for the chosen variant, and otherwise the
\* returned track is the non-empty automatic entry of that variant; with
\* preferManual = false the chosen variant is the first one with a non-empty
\* entry in either map.
C3_ManualFlagMatchesTrack ==
  (stage = "done" /\ selOut.found) =>
    LET v == selOut.langVar
        any == NonEmptyIn(selIn.subtitles) \cup NonEmptyIn(selIn.autoCaptions)
    IN /\ selOut.isManualSubtitle <=> HasLength(selIn.subtitles, v)
       /\ selOut.isManualSubtitle => selOut.selectedSubtitle = selIn.subtitles[v]
       /\ ~selOut.isManualSubtitle =>
            /\ HasLength(selIn.autoCaptions, v)
            /\ selOut.selectedSubtitle = selIn.autoCaptions[v]
       /\ ~selIn.preferManual => v = langVariants(selIn.lang)[Lowest(any)]

(***************************************************************************)
(* Claims about the Cue Parser (checked under SpecParse)                   *)
(***************************************************************************)

\* a timing line: a line containing the separator
IsTimingLine(l) == Includes(l, Sep)

IsBlankLine(l) == Trim(l) = << >>

\* index after the run of non-blank, non-timing lines that starts at j
RECURSIVE RunEnd(_, _)
RunEnd(lines, j) ==
  IF j <= Len(lines) /\ ~IsBlankLine(lines[j]) /\ ~IsTimingLine(lines[j])
    THEN RunEnd(lines, j + 1)
    ELSE j

\* the cleaned, non-empty lines of lines[from .. to - 1]
RECURSIVE CleanedLines(_, _, _)
CleanedLines(lines, from, to) ==
  IF from >= to THEN << >>
  ELSE LET clean == Trim(StripTags(lines[from]))
       IN (IF clean # << >> THEN << clean >> ELSE << >>) \o CleanedLines(lines, from + 1, to)

\* text of the cue that the timing line i starts
CueText(lines, i) == Trim(Join(CleanedLines(lines, i + 1, RunEnd(lines, i + 1)), << " " >>))

\* the timing lines that have cue text, in source order
RECURSIVE CueLines(_, _)
CueLines(lines, i) ==
  IF i > Len(lines) THEN << >>
  ELSE (IF IsTimingLine(lines[i]) /\ CueText(lines, i) # << >> THEN << i >> ELSE << >>)
         \o CueLines(lines, i + 1)

InputLines == Split(parseIn, NL)

\* C9: the parser emits, in source order, exactly one item per timing line
\* whose run of following non-blank, non-timing lines has text left after tag
\* stripping and trimming, and nothing else.
C9_OneItemPerCue ==
  stage = "done" =>
    LET cues == CueLines(InputLines, 1)
    IN /\ Len(parseOut) = Len(cues)
       /\ \A n \in 1..Len(cues) : parseOut[n].text = CueText(InputLines, cues[n])

\* The well-formed timing lines of LineSet with the start and the duration
\* (end minus start, to three decimals) they state, in milliseconds
TimingTable ==
  { [line |-> T1 \o Sep \o T2, start |-> 1000, duration |-> 2500],
    [line |-> T2 \o Sep \o T3 \o Settings, start |-> 3500, duration |-> 3750],
    [line |-> T1 \o Sep \o T2 \o Settings, start |-> 1000, duration |-> 2500] }

Stated(l) == CHOOSE t \in TimingTable : t.line = l

WellFormedInput == \A i \in 1..Len(InputLines) :
  IsTimingLine(InputLines[i]) => \E t \in TimingTable : t.line = InputLines[i]

\* C10: for well-formed timing lines with end >= start, cue settings after the
\* end timestamp included, the emitted item has the start of the line and the
\* duration end minus start, which is not negative.
C10_StartAndDuration ==
  (stage = "done" /\ WellFormedInput) =>
    LET cues == CueLines(InputLines, 1)
    IN /\ Len(parseOut) = Len(cues)
       /\ \A n \in 1..Len(cues) :
            /\ parseOut[n].start = Num(Stated(InputLines[cues[n]]).start)
            /\ parseOut[n].duration = Num(Stated(InputLines[cues[n]]).duration)
            /\ parseOut[n].duration.v >= 0

(***************************************************************************)
(* Claims about execute() (checked under Spec and SpecParallel)            *)
(***************************************************************************)

Running == DOMAIN ex

\* the record pushed for the item processed last
LastRecord(e) ==
  LET rd == ex[e].returnData
  IN rd[CHOOSE n \in 1..Len(rd) : rd[n].pairedItem = ex[e].last.idx]

IsErrorRecord(r) == "error" \in DOMAIN r.json

\* C1: with continue-on-failure enabled no failure leaves execute(): each
\* failed item leaves one error record with its video reference in place of a
\* result, and the output has one record per item, in input order.
C1_ContinueOnFail ==
  \A e \in Running :
    LET x == ex[e] IN
    x.continueOnFail =>
      /\ x.pc # "thrown"
      /\ x.pc \in {"begin", "returned"} =>
           /\ Len(x.returnData) = x.itemIndex
           /\ \A n \in 1..Len(x.returnData) : x.returnData[n].pairedItem = n - 1
           /\ x.last.idx >= 0 =>
                /\ IsErrorRecord(LastRecord(e)) <=> x.last.failed
                /\ x.last.failed => LastRecord(e).json.videoId = x.last.it.videoId

\* C4: an empty or whitespace-only video reference is rejected as invalid input
\* before any collaborator call: no item with such a reference gets past the
\* validation, and for it neither the metadata provider nor the subtitle
\* fetcher was invoked and no cookie file was written.
C4_BlankRejectedBeforeCalls ==
  \A e \in Running :
    LET x == ex[e] IN
    /\ x.pc \notin {"begin", "returned", "thrown"} => Trim(x.it.videoId) # << >>
    /\ (x.last.idx >= 0 /\ Trim(x.last.it.videoId) = << >>) =>
         /\ x.last.failed
         /\ x.last.it.calls = << >>
         /\ x.last.it.cookieFilePath = NoPath
         /\ \A p \in DOMAIN fs : ~(fs[p].owner = e /\ p.idx = x.last.idx)
         /\ IF x.continueOnFail
              THEN LastRecord(e).json.error = Message(EmptyVideoIdText, << >>)
              ELSE x.thrown = << Message(EmptyVideoIdText, << >>) >>

\* a whitespace-only video reference has been rejected
C4_Witness ==
  \E e \in Running :
    /\ ex[e].last.idx = 0
    /\ ex[e].last.it.videoId = << " " >>
    /\ ex[e].last.it.authMethod = "cookieString"
    /\ ex[e].last.failed

\* the file the downloader left for the last item has a name the node accepts
FetchedAccepted(e) ==
  /\ ex[e].last.idx >= 0
  /\ ex[e].last.it.fetched # << >>
  /\ \E k \in 1..3 : ex[e].last.it.fetched[1].sub = langVariants(ex[e].last.it.lang)[k]

\* C5: whenever metadata fetch, selection and subtitle fetch succeeded and the
\* fetched text has no cue (the empty text included), the item succeeds with a
\* transcript item count of 0.
C5_EmptyTranscriptSucceeds ==
  \A e \in Running :
    (FetchedAccepted(e) /\ parseTranscriptContent(ex[e].last.it.fetched[1].content) = << >>) =>
      /\ ~ex[e].last.failed
      /\ ~IsErrorRecord(LastRecord(e))
      /\ LastRecord(e).json.transcriptLength = 0

\* the item with index idx of execution e has ended
ItemEnded(e, idx) == idx < ex[e].itemIndex \/ ex[e].pc \in {"returned", "thrown"}

\* C6: once an item has ended, in success or in failure, no temporary file
\* created for it (cookie file or subtitle file) is left on disk.
C6_NoTempFileRemains ==
  \A e \in Running : \A p \in DOMAIN fs : fs[p].owner = e => ~ItemEnded(e, p.idx)

\* The transcript the subtitle texts of the model stand for: the number of
\* items and their texts joined by single spaces
ExpectedTranscript(content) ==
  IF content = TwoCueContent
    THEN [count |-> 2, text |-> << "y", "o", " ", "h", "i", " ", "h", "i" >>]
    ELSE [count |-> 0, text |-> << >>]

\* C7: the result of a successful item carries the normalized id, the canonical
\* URL, the requested language, the manual/auto-generated marker and the number
\* of parsed items; transcript exactly for structured and both, transcriptText
\* (texts joined by single spaces) exactly for plainText and both, metadata
\* exactly when it was requested.
C7_ResultShape ==
  \A e \in Running :
    LET l == ex[e].last IN
    (l.idx >= 0 /\ ~l.failed) =>
      LET r == LastRecord(e).json
          want == ExpectedTranscript(l.it.fetched[1].content)
          f == l.it.outputFormat
      IN /\ LastRecord(e).pairedItem = l.idx
         /\ {"youtubeId", "videoUrl", "language", "subtitleType", "transcriptLength"}
              \subseteq DOMAIN r
         /\ DOMAIN r \subseteq {"youtubeId", "videoUrl", "language", "subtitleType",
                                "transcriptLength", "transcript", "transcriptText", "metadata"}
         /\ r.youtubeId = BareId
         /\ r.videoUrl = IF l.it.videoId = BareId THEN WatchPrefix \o BareId ELSE ShortUrl
         /\ r.language = En
         /\ r.subtitleType = IF l.it.isManualSubtitle THEN "manual" ELSE "auto-generated"
         /\ r.transcriptLength = want.count
         /\ "transcript" \in DOMAIN r <=> f \in {"structured", "both"}
         /\ "transcript" \in DOMAIN r =>
              /\ Len(r.transcript) = want.count
              /\ r.transcript = l.it.formattedTranscript
         /\ "transcriptText" \in DOMAIN r <=> f \in {"plainText", "both"}
         /\ "transcriptText" \in DOMAIN r => r.transcriptText = want.text
         /\ "metadata" \in DOMAIN r <=> l.it.includeMetadata
         /\ "metadata" \in DOMAIN r => r.metadata.uploadDate = Info.upload_date

\* an item with two cues has succeeded with format both and metadata
C7_Witness ==
  \E e \in Running :
    /\ ex[e].last.idx = 0
    /\ ~ex[e].last.failed
    /\ ex[e].last.it.outputFormat = "both"
    /\ ex[e].last.it.includeMetadata
    /\ ex[e].last.it.videoId = ShortUrl
    /\ LastRecord(e).json.transcriptLength = 2

\* C8: two executions that run side by side never read, parse or delete a
\* temporary file of the other: the temporary paths of requests in flight at
\* the same time are distinct.
C8_ParallelSafe ==
  \A e \in Running :
    /\ ~ex[e].it.foreign
    /\ ~ex[e].last.it.foreign
    /\ \A o \in Running \ {e} :
         /\ ex[e].it.outputPath # NoPath => ex[e].it.outputPath # ex[o].it.outputPath
         /\ (ex[e].it.cookieFilePath # NoPath /\ ex[e].it.authMethod = "cookieString") =>
              ex[e].it.cookieFilePath # ex[o].it.cookieFilePath

(***************************************************************************)
(* Claims about the collaborator calls (checked under Spec)                *)
(***************************************************************************)

\* The collaborator calls of an item, in the order they were made
CollaboratorCalls(it) == SelectSeq(it.calls, LAMBDA c : c \in {"metadata", "download"})

\* The items that have passed the validation: the item in progress and the
\* item processed last, each with whether it has got past the metadata stage
ValidatedItems(e) ==
  (IF ex[e].pc \in {"metadata", "subtitleInfo", "download", "read", "unlinkSubtitle", "finally"}
     THEN {[it |-> ex[e].it,
            past |-> ex[e].pc \in {"download", "read", "unlinkSubtitle", "finally"}]}
     ELSE { })
    \cup (IF ex[e].last.idx >= 0 /\ ~IsBlank(ex[e].last.it.videoId)
            THEN {[it |-> ex[e].last.it, past |-> TRUE]}
            ELSE { })

\* C11: for an item that passed the validation the collaborator calls are the
\* metadata call, exactly once (also when metadata is requested), then at most
\* one download call, made only after the metadata call succeeded and one
\* selection found a track; no call follows a failed call or an empty
\* selection, and the track is selected once.
C11_CallOrder ==
  \A e \in Running : \A v \in ValidatedItems(e) :
    LET cc == CollaboratorCalls(v.it)
        out == v.it.outcomes
        sel == v.it.selections
    IN /\ cc \in {<< >>, << "metadata" >>, << "metadata", "download" >>}
       /\ v.past => Len(cc) >= 1
       /\ Len(out) = Len(cc)
       /\ \A n \in 1..Len(out) : out[n] = "failed" => n = Len(cc)
       /\ Len(sel) <= 1
       /\ sel # << >> => out[1] = "ok"
       /\ (v.past /\ out[1] = "ok") => Len(sel) = 1
       /\ Len(cc) = 2 => (out[1] = "ok" /\ sel = << TRUE >>)
       /\ sel = << FALSE >> => cc = << "metadata" >>

\* an item for which metadata was requested has succeeded after both calls
C11_Witness ==
  \E e \in Running :
    /\ ex[e].last.idx >= 0
    /\ ~ex[e].last.failed
    /\ ex[e].last.it.includeMetadata
    /\ CollaboratorCalls(ex[e].last.it) = << "metadata", "download" >>
    /\ ex[e].last.it.outcomes = << "ok", "ok" >>

\* The items for which a track was selected
SelectedItems(e) ==
  {v \in ValidatedItems(e) : v.it.selections = << TRUE >>}

\* C12: when the selection finds a track for variant v of the language, the
\* download command asks for v and the file names read afterwards include the
\* one of v, so that a file the downloader leaves for v with some text is
\* read and the item does not fail.
C12_FetchTargetsSelection ==
  \A e \in Running : \A v \in SelectedItems(e) :
    /\ SubLang(v.it) = v.it.langVar
    /\ \E k \in 1..Len(possibleFiles(v.it.outputPath, v.it.lang)) :
         possibleFiles(v.it.outputPath, v.it.lang)[k].sub = v.it.langVar
    /\ (/\ v.it = ex[e].last.it
        /\ v.it.fetched # << >>
        /\ v.it.fetched[1].sub = v.it.langVar
        /\ v.it.fetched[1].content # << >>) => ~ex[e].last.failed

====
